---------------------------- MODULE Spec2Model ----------------------------
(***************************************************************************)
(* Model of csctracker_ai_core: the APIKeyRotator slot allocator           *)
(* (service/ApiKeyRotator.py) and the retry loop that drives it,           *)
(* IaProcessor.analisar_com_gemini (service/IaProcessor.py).               *)
(*                                                                         *)
(* The rotator object is the record `rot`; every method of the class is an *)
(* operator from the record (and the arguments) to the record after the    *)
(* call, so that the same translation serves the retry loop (Spec), direct *)
(* calls of the public methods (SpecApi) and the sequential round-robin    *)
(* scenario (SpecRR).  Each operator is one critical section of            *)
(* self._lock.  time.time() is the variable `now`, in whole seconds.       *)
(***************************************************************************)
EXTENDS Integers, Sequences, FiniteSets, TLC

VARIABLES
    rot,    \* the APIKeyRotator instance
    now,    \* time.time()
    req,    \* req[r]: the locals of one call of analisar_com_gemini
    ret,    \* return value of the last direct call of a rotator method
    calls,  \* number of direct calls made so far (SpecApi, SpecRR)
    hist,   \* credentials returned by the acquisitions of SpecRR, in order
    invalidated  \* history: credentials processar_exception found invalid

vars == <<rot, now, req, ret, calls, hist, invalidated>>

-----------------------------------------------------------------------------
(* Bounds of the model *)

\* number of concurrent calls of analisar_com_gemini
NReq == 2
\* time.time() when the rotator is built: 07:59:00 UTC of day 0
StartTime == 28740
\* the clock stops advancing this many seconds after StartTime
Horizon == 60
\* one step of the clock
TickSecs == 60
\* direct calls of rotator methods in one behaviour of SpecApi
MaxApiCalls == 3
\* largest model limit of SpecGate
MaxLimit == 2
\* acquire/release calls in one behaviour of SpecGate
MaxGateCalls == 6
\* calls of processar_exception in one behaviour of SpecFail
MaxFailCalls == 2
\* longest configured model list of SpecSort
MaxModels == 3
\* SpecClock draws time.time() from the seconds 0..ClockSpan-1 (two days)
ClockSpan == 172800
\* acquire/release calls in one behaviour of SpecRR
MaxRRCalls == 8

Reqs == 1..NReq

None == "None"

-----------------------------------------------------------------------------
(* Strings.  A name is a TLA+ string; Chars gives its spelling so that     *)
(* str.lower() and the substring test `a in b` are computed, not assumed.  *)

Chars(s) ==
    CASE s = "g-ultra" -> <<"g", "-", "u", "l", "t", "r", "a">>
      [] s = "g-pro"   -> <<"g", "-", "p", "r", "o">>
      [] s = "G-Flash" -> <<"G", "-", "F", "l", "a", "s", "h">>
      [] s = "g-nano"  -> <<"g", "-", "n", "a", "n", "o">>
      [] s = "pro-flash" -> <<"p", "r", "o", "-", "f", "l", "a", "s", "h">>
      [] s = "ultra"   -> <<"u", "l", "t", "r", "a">>
      [] s = "pro"     -> <<"p", "r", "o">>
      [] s = "PRO"     -> <<"P", "R", "O">>
      [] s = "flash"   -> <<"f", "l", "a", "s", "h">>
      [] s = "nano"    -> <<"n", "a", "n", "o">>
      [] OTHER         -> <<>>

LowerChar(c) ==
    CASE c = "G" -> "g"
      [] c = "F" -> "f"
      [] c = "P" -> "p"
      [] c = "R" -> "r"
      [] c = "O" -> "o"
      [] OTHER   -> c

\* str.lower()
Lower(cs) == [i \in 1..Len(cs) |-> LowerChar(cs[i])]

\* `sub in s` on spellings
Contains(sub, s) ==
    \E i \in 1..(Len(s) - Len(sub) + 1) : SubSeq(s, i, i + Len(sub) - 1) = sub

\* model_variant.lower() in model.lower()
VariantMatches(model_variant, model) ==
    Contains(Lower(Chars(model_variant)), Lower(Chars(model)))

-----------------------------------------------------------------------------
(* Sequence helpers *)

Range(s) == {s[i] : i \in 1..Len(s)}

\* list(dict.fromkeys(keys)): first occurrences, order kept
RECURSIVE Dedup(_)
Dedup(s) ==
    IF s = <<>> THEN <<>>
    ELSE LET front == Dedup(SubSeq(s, 1, Len(s) - 1))
             last  == s[Len(s)]
         IN IF last \in Range(front) THEN front ELSE Append(front, last)

\* index of the first occurrence of x in s (0 when absent)
IndexOf(x, s) ==
    IF x \in Range(s) THEN CHOOSE i \in 1..Len(s) : s[i] = x /\ \A j \in 1..(i - 1) : s[j] # x
    ELSE 0

\* list.remove(x): drops the first occurrence
ListRemove(s, x) ==
    LET i == IndexOf(x, s)
    IN IF i = 0 THEN s ELSE SubSeq(s, 1, i - 1) \o SubSeq(s, i + 1, Len(s))

Max(a, b) == IF a >= b THEN a ELSE b

\* {} as a dict
EmptyDict == [x \in {} |-> 0]

\* d[k] = v
DictSet(d, k, v) == [x \in (DOMAIN d) \cup {k} |-> IF x = k THEN v ELSE d[x]]

\* del d[k]
DictDel(d, k) == [x \in (DOMAIN d) \ {k} |-> d[x]]


-----------------------------------------------------------------------------
(* Configuration.  A configuration is what _load_model_config and load_keys *)
(* read: the model limits as an ordered list of <<name, limit>> (a dict in *)
(* insertion order) and the two credential lists as split, stripped,       *)
(* non-empty tokens.                                                       *)

Cfg(limits, free, paid) == [limits |-> limits, free |-> free, paid |-> paid]

\* self._models = list(self._model_limits.keys())
ModelsOf(limits) == [i \in 1..Len(limits) |-> limits[i][1]]

\* self._model_limits.get(model, 1)
LimitOf(limits, model) ==
    IF \E i \in 1..Len(limits) : limits[i][1] = model
    THEN limits[CHOOSE i \in 1..Len(limits) : limits[i][1] = model][2]
    ELSE 1

get_model_weight(model_name) ==
    LET m == Lower(Chars(model_name))
    IN IF Contains(Chars("ultra"), m) THEN 100
       ELSE IF Contains(Chars("pro"), m) THEN 80
       ELSE IF Contains(Chars("flash"), m) THEN 10
       ELSE 50

\* the weights get_model_weight can return, ascending
WeightsAscending == <<10, 50, 80, 100>>

Reverse(s) == [i \in 1..Len(s) |-> s[Len(s) + 1 - i]]

WithWeight(models, w) == SelectSeq(models, LAMBDA m : get_model_weight(m) = w)

\* sorted(models, key=get_model_weight, reverse=...): stable in both directions
RECURSIVE SortByWeights(_, _)
SortByWeights(models, weights) ==
    IF weights = <<>> THEN <<>>
    ELSE WithWeight(models, Head(weights)) \o SortByWeights(models, Tail(weights))

\* mutant: the Free order is the Paid order read backwards
_get_prioritized_models_Backwards(models, is_paid_key) ==
    IF is_paid_key
    THEN SortByWeights(models, WeightsAscending)
    ELSE Reverse(SortByWeights(models, WeightsAscending))

_get_prioritized_models(models, is_paid_key) ==
    IF is_paid_key
    THEN SortByWeights(models, WeightsAscending)
    ELSE SortByWeights(models, Reverse(WeightsAscending))

\* load_keys with _setup_key_state: a credential's state is created once, by
\* the first list that names it (free before paid)
load_keys(cfg) ==
    LET models     == ModelsOf(cfg.limits)
        free       == Dedup(cfg.free)
        paid       == Dedup(cfg.paid)
        keys       == Range(free) \cup Range(paid)
    IN [ models          |-> models,
         model_limits    |-> cfg.limits,
         free_keys       |-> free,
         paid_keys       |-> paid,
         all_keys_count  |-> Len(free) + Len(paid),
         models_by_key   |-> [k \in keys |->
                                 _get_prioritized_models(models, k \notin Range(free))],
         active_slots    |-> [k \in keys |-> [m \in Range(models) |-> 0]],
         suspended_until |-> [k \in keys |-> EmptyDict],
         free_index      |-> 0,
         paid_index      |-> 0 ]

get_total_capacity(r) == Max(1, r.all_keys_count * Len(r.models))


-----------------------------------------------------------------------------
(* APIKeyRotator: slot selection *)

\* the (key, model) pairs in the order the two nested loops of
\* _find_slot_in_list visit them: keys from start_index, wrapping once, and
\* for each key its models in preference order
RECURSIVE ScanOrder(_, _, _, _)
ScanOrder(r, keys_list, start_index, i) ==
    IF i >= Len(keys_list) THEN <<>>
    ELSE LET idx == (start_index + i) % Len(keys_list)
             key == keys_list[idx + 1]
             ms  == r.models_by_key[key]
         IN [j \in 1..Len(ms) |-> <<key, ms[j]>>]
            \o ScanOrder(r, keys_list, start_index, i + 1)

\* if model_variant and model_variant.lower() not in model.lower(): continue
FilteredOut(model_variant, model) ==
    model_variant # None /\ ~VariantMatches(model_variant, model)

\* mutant: the comparison with the deadline is the wrong way round
StillSuspended_Inverted(r, key, model, current_time) ==
    /\ model \in DOMAIN r.suspended_until[key]
    /\ current_time > r.suspended_until[key][model]

\* model in self._suspended_until[key] and current_time < deadline
StillSuspended(r, key, model, current_time) ==
    /\ model \in DOMAIN r.suspended_until[key]
    /\ current_time < r.suspended_until[key][model]

\* mutant: the limit test lets a full pair through
BelowLimit_OffByOne(r, key, model) ==
    r.active_slots[key][model] <= LimitOf(r.model_limits, model)

\* self._active_slots[key][model] < self._model_limits.get(model, 1)
BelowLimit(r, key, model) ==
    r.active_slots[key][model] < LimitOf(r.model_limits, model)

\* mutant: the variant filter is not applied
Admissible_IgnoresFilter(r, key, model, current_time, model_variant) ==
    /\ ~StillSuspended(r, key, model, current_time)
    /\ BelowLimit(r, key, model)

\* the pair passes the three tests of the loop body
Admissible(r, key, model, current_time, model_variant) ==
    /\ ~FilteredOut(model_variant, model)
    /\ ~StillSuspended(r, key, model, current_time)
    /\ BelowLimit(r, key, model)

\* the loop body reaches `del self._suspended_until[key][model]` for the pair
Expired(r, key, model, current_time, model_variant) ==
    /\ ~FilteredOut(model_variant, model)
    /\ model \in DOMAIN r.suspended_until[key]
    /\ ~(current_time < r.suspended_until[key][model])

\* The two nested loops: the scan stops at the first admissible pair, whose
\* count it increments; the expired suspension of every pair it inspected up
\* to there (of every pair, when it finds none) is deleted on the way.
_find_slot_in_list(r, keys_list, start_index, current_time, model_variant) ==
    IF Len(keys_list) = 0 THEN [key |-> None, model |-> None, rot |-> r]
    ELSE
      LET pairs == ScanOrder(r, keys_list, start_index, 0)
          hits  == {i \in 1..Len(pairs) :
                      Admissible(r, pairs[i][1], pairs[i][2], current_time, model_variant)}
          found == IF hits = {} THEN 0
                   ELSE CHOOSE i \in hits : \A j \in hits : i <= j
          last  == IF found = 0 THEN Len(pairs) ELSE found
          gone  == {pairs[i] : i \in {j \in 1..last :
                      Expired(r, pairs[j][1], pairs[j][2], current_time, model_variant)}}
          susp  == [k \in DOMAIN r.suspended_until |->
                      [m \in {x \in DOMAIN r.suspended_until[k] : <<k, x>> \notin gone}
                          |-> r.suspended_until[k][m]]]
          r1    == [r EXCEPT !.suspended_until = susp]
      IN IF found = 0 THEN [key |-> None, model |-> None, rot |-> r1]
         ELSE [key |-> pairs[found][1], model |-> pairs[found][2],
               rot |-> [r1 EXCEPT
                          !.active_slots[pairs[found][1]][pairs[found][2]] = @ + 1]]

\* mutant: the Free cursor is not advanced
NextFreeIndex_Stuck(r, key) == r.free_index

\* self._free_index = (self._free_index + 1) % len(self._free_keys)
NextFreeIndex(r, key) == (r.free_index + 1) % Len(r.free_keys)

\* self._paid_index = (self._paid_index + 1) % len(self._paid_keys)
NextPaidIndex(r, key) == (r.paid_index + 1) % Len(r.paid_keys)

\* mutant: the Paid scan runs whatever forced_free says
SelectPaid_IgnoresForcedFree(r, current_time, model_variant, forced_free) ==
    LET f == _find_slot_in_list(r, r.paid_keys, r.paid_index, current_time, model_variant)
    IN IF f.key # None
       THEN [key |-> f.key, model |-> f.model, tier |-> "paid",
             rot |-> [f.rot EXCEPT !.paid_index = NextPaidIndex(f.rot, f.key)]]
       ELSE [key |-> None, model |-> None, tier |-> None, rot |-> f.rot]

\* TIER 2 of select_and_reserve_best_slot, entered with the rotator as the
\* TIER 1 scan left it
SelectPaid(r, current_time, model_variant, forced_free) ==
    LET f == _find_slot_in_list(r, r.paid_keys, r.paid_index, current_time, model_variant)
    IN IF ~forced_free /\ f.key # None
       THEN [key |-> f.key, model |-> f.model, tier |-> "paid",
             rot |-> [f.rot EXCEPT !.paid_index = NextPaidIndex(f.rot, f.key)]]
       ELSE [key |-> None, model |-> None, tier |-> None,
             rot |-> IF forced_free THEN r ELSE f.rot]

\* mutant: the tiers are tried in the wrong order
select_and_reserve_PaidFirst(r, current_time, model_variant, forced_paid, forced_free) ==
    LET p == SelectPaid(r, current_time, model_variant, forced_free)
        f == _find_slot_in_list(p.rot, p.rot.free_keys, p.rot.free_index,
                                current_time, model_variant)
    IN IF p.key # None THEN p
       ELSE IF ~forced_paid /\ f.key # None
       THEN [key |-> f.key, model |-> f.model, tier |-> "free",
             rot |-> [f.rot EXCEPT !.free_index = NextFreeIndex(f.rot, f.key)]]
       ELSE [key |-> None, model |-> None, tier |-> None, rot |-> p.rot]

select_and_reserve_best_slot(r, current_time, model_variant, forced_paid, forced_free) ==
    LET f == _find_slot_in_list(r, r.free_keys, r.free_index, current_time, model_variant)
    IN IF ~forced_paid /\ f.key # None
       THEN [key |-> f.key, model |-> f.model, tier |-> "free",
             rot |-> [f.rot EXCEPT !.free_index = NextFreeIndex(f.rot, f.key)]]
       ELSE SelectPaid(IF forced_paid THEN r ELSE f.rot,
                       current_time, model_variant, forced_free)

\* mutant: a release frees every slot of the pair
liberar_slot_model_ClearsAll(r, key, model) ==
    IF /\ key \in DOMAIN r.active_slots
       /\ model \in DOMAIN r.active_slots[key]
       /\ r.active_slots[key][model] > 0
    THEN [r EXCEPT !.active_slots[key][model] = 0]
    ELSE r

\* mutant: the decrement is not floored at 0
liberar_slot_model_NoFloor(r, key, model) ==
    IF /\ key \in DOMAIN r.active_slots
       /\ model \in DOMAIN r.active_slots[key]
    THEN [r EXCEPT !.active_slots[key][model] = @ - 1]
    ELSE r

liberar_slot_model(r, key, model) ==
    IF /\ key \in DOMAIN r.active_slots
       /\ model \in DOMAIN r.active_slots[key]
       /\ r.active_slots[key][model] > 0
    THEN [r EXCEPT !.active_slots[key][model] = @ - 1]
    ELSE r


-----------------------------------------------------------------------------
(* APIKeyRotator: error handling.  str(exception) is the set of the tokens *)
(* it contains; a compiled regex searches it for its alternatives.         *)

regex_429         == {"429", "RESOURCE_EXHAUSTED"}
regex_limit_zero  == {"limit: 0"}
regex_per_day     == {"PerDay", "Quota.*Day"}
regex_per_minute  == {"PerMinute", "Quota.*Minute"}
regex_invalid_key == {"API_KEY_INVALID", "key not valid", "unauthorized"}

\* regex.search(error_str) is not None
Search(regex, error_str) == regex \cap error_str # {}

SecondsPerDay == 86400
\* 08:00 UTC as seconds of the day
RenewalSecond == 28800
RenewalMargin == 300
SuspendLimitZero == 86400
SuspendPerMinute == 120
SuspendDefault == 60

\* mutant: at exactly 08:00 the boundary is still today's
_calcular_segundos_ate_renovacao_Strict(t) ==
    LET tod == t % SecondsPerDay
        target == IF tod > RenewalSecond THEN RenewalSecond + SecondsPerDay
                  ELSE RenewalSecond
    IN (target - tod) + RenewalMargin

\* datetime.now(timezone.utc) is the second `t` of time.time()
_calcular_segundos_ate_renovacao(t) ==
    LET tod == t % SecondsPerDay
        target == IF tod >= RenewalSecond THEN RenewalSecond + SecondsPerDay
                  ELSE RenewalSecond
    IN (target - tod) + RenewalMargin

\* mutant: the new deadline always replaces the recorded one
suspender_modelo_Overwrites(r, t, key, model, segundos) ==
    IF key \notin DOMAIN r.models_by_key THEN r
    ELSE [r EXCEPT !.suspended_until[key] = DictSet(@, model, t + segundos)]

suspender_modelo(r, t, key, model, segundos) ==
    IF key \notin DOMAIN r.models_by_key THEN r
    ELSE LET liberacao_em == t + segundos
         IN IF /\ model \in DOMAIN r.suspended_until[key]
               /\ r.suspended_until[key][model] > liberacao_em
            THEN r
            ELSE [r EXCEPT !.suspended_until[key] = DictSet(@, model, liberacao_em)]

\* mutant: the per-minute signal is looked for before the daily one
SuspensionTime_MinuteFirst(t, error_str) ==
    IF Search(regex_limit_zero, error_str) THEN SuspendLimitZero
    ELSE IF Search(regex_per_minute, error_str) THEN SuspendPerMinute
    ELSE IF Search(regex_per_day, error_str) THEN _calcular_segundos_ate_renovacao(t)
    ELSE SuspendDefault

\* suspension_time of _tratar_erro_429
SuspensionTime(t, error_str) ==
    IF Search(regex_limit_zero, error_str) THEN SuspendLimitZero
    ELSE IF Search(regex_per_day, error_str) THEN _calcular_segundos_ate_renovacao(t)
    ELSE IF Search(regex_per_minute, error_str) THEN SuspendPerMinute
    ELSE SuspendDefault

_tratar_erro_429(r, t, key, model, error_str) ==
    suspender_modelo(r, t, key, model, SuspensionTime(t, error_str))

remove_key(r, key_to_remove) ==
    IF key_to_remove \in Range(r.free_keys)
    THEN [rot |-> [r EXCEPT !.free_keys = ListRemove(@, key_to_remove),
                            !.all_keys_count = @ - 1],
          found |-> TRUE]
    ELSE IF key_to_remove \in Range(r.paid_keys)
    THEN [rot |-> [r EXCEPT !.paid_keys = ListRemove(@, key_to_remove),
                            !.all_keys_count = @ - 1],
          found |-> TRUE]
    ELSE [rot |-> r, found |-> FALSE]

processar_exception(r, t, key, model, error_str) ==
    IF Search(regex_429, error_str)
    THEN [rot |-> _tratar_erro_429(r, t, key, model, error_str), handled |-> TRUE]
    ELSE IF Search(regex_invalid_key, error_str)
    THEN [rot |-> remove_key(r, key).rot, handled |-> TRUE]
    ELSE [rot |-> r, handled |-> FALSE]


-----------------------------------------------------------------------------
(* IaProcessor.analisar_com_gemini: one call is one request r.             *)
(* pc: "idle" (not called yet), "acquiring" (at the loop head, about to    *)
(* call select_and_reserve_best_slot), "invoking" (generate_content in     *)
(* flight), "except_release" (in the except block before its release),     *)
(* "classify" (in the except block before processar_exception), "done"     *)
(* (returned), "failed" (raised).  key, model_name, tier and the exception *)
(* are dead at the loop head and are reset there; a finished call keeps    *)
(* only what it returned or raised and the history fields iters, cap0 and  *)
(* telemetry (the calls of click_house.log_event_telemetry it made).       *)

IdleRequest ==
    [ pc |-> "idle", model_variant |-> None, forced_free |-> FALSE,
      forced_paid |-> FALSE, max_tentativas |-> 0, tentativa_atual |-> 0,
      key |-> None, model_name |-> None, tier |-> None, err |-> {},
      raised |-> None, iters |-> 0, cap0 |-> 0, telemetry |-> 0 ]

Finished(q, pc, raised) ==
    [IdleRequest EXCEPT !.pc = pc, !.raised = raised,
                        !.iters = q.iters, !.cap0 = q.cap0,
                        !.telemetry = q.telemetry]

\* max_tentativas = rotator.get_total_capacity() + 2
MaxTentativas(r) == get_total_capacity(r) + 2

\* mutant: the loop runs once more
LoopCondition_OneMore(q) == q.tentativa_atual <= q.max_tentativas

\* while tentativa_atual < max_tentativas
LoopCondition(q) == q.tentativa_atual < q.max_tentativas

\* the while condition, reached by `continue` and by the `break` of the
\* no-slot branch; leaving the loop raises GeminiServiceException
LoopHead(q) ==
    IF LoopCondition(q)
    THEN [q EXCEPT !.pc = "acquiring", !.key = None, !.model_name = None,
                   !.tier = None, !.err = {}]
    ELSE Finished(q, "failed", "GeminiServiceException")

\* mutant: an exception processar_exception did not handle is raised again
AfterException_Reraises(q, foi_erro_de_cota) ==
    IF foi_erro_de_cota THEN LoopHead(q) ELSE Finished(q, "failed", "Exception")

\* the tail of the except block: both branches `continue`
AfterException(q, foi_erro_de_cota) == LoopHead(q)

\* tentativa_atual += 1
CountAttempt(q) == [q EXCEPT !.tentativa_atual = @ + 1, !.iters = @ + 1]

\* what generate_content and the code after it can do when the call
\* returns: a payload that converts, one that json.loads rejects with
\* JSONDecodeError, one whose conversion raises another exception
Payloads == {"valid", "malformed", "unconvertible"}

\* str(e) of the TypeError json.loads raises on a response without text
ConvErrText == {"not NoneType"}

Start(r, model_variant, forced_free, forced_paid) ==
    /\ req[r].pc = "idle"
    /\ req' = [req EXCEPT ![r] =
                 [@ EXCEPT !.pc = "acquiring",
                           !.model_variant = model_variant,
                           !.forced_free = forced_free,
                           !.forced_paid = forced_paid,
                           !.max_tentativas = MaxTentativas(rot),
                           !.cap0 = get_total_capacity(rot),
                           !.tentativa_atual = 0]]
    /\ UNCHANGED <<rot, now, ret, calls, hist, invalidated>>

\* one pass of the loop head: tentativa_atual += 1, then the reservation
Acquire(r) ==
    /\ req[r].pc = "acquiring"
    /\ LET q == req[r]
           s == select_and_reserve_best_slot(rot, now, q.model_variant,
                                             q.forced_paid, q.forced_free)
           q1 == CountAttempt(q)
       IN /\ rot' = s.rot
          /\ req' = [req EXCEPT ![r] =
                       IF s.key = None
                       THEN LoopHead(q1)
                       ELSE [q1 EXCEPT !.pc = "invoking", !.key = s.key,
                                       !.model_name = s.model, !.tier = s.tier]]
    /\ UNCHANGED <<now, ret, calls, hist, invalidated>>

\* self.click_house.log_event_telemetry(...), which swallows its own errors
LogEventTelemetry(q) == [q EXCEPT !.telemetry = @ + 1]

\* generate_content returned: telemetry, liberar_slot_model, then the
\* conversion of response.text
GenerateReturns(r, payload) ==
    /\ req[r].pc = "invoking"
    /\ LET q == LogEventTelemetry(req[r])
       IN /\ rot' = liberar_slot_model(rot, q.key, q.model_name)
          /\ req' = [req EXCEPT ![r] =
                       CASE payload = "valid" -> Finished(q, "done", None)
                         [] payload = "malformed" -> LoopHead(q)
                         [] OTHER -> [q EXCEPT !.pc = "except_release",
                                               !.err = ConvErrText]]
    /\ UNCHANGED <<now, ret, calls, hist, invalidated>>

\* mutant: the except block does not release
GenerateRaises_NoRelease(r, error_str) ==
    /\ req[r].pc = "invoking"
    /\ req' = [req EXCEPT ![r] = [@ EXCEPT !.pc = "classify", !.err = error_str]]
    /\ UNCHANGED <<rot, now, ret, calls, hist, invalidated>>

\* an exception inside the try before its liberar_slot_model: the except
\* block releases
GenerateRaises(r, error_str) ==
    /\ req[r].pc = "invoking"
    /\ LET q == req[r]
       IN /\ rot' = liberar_slot_model(rot, q.key, q.model_name)
          /\ req' = [req EXCEPT ![r] = [q EXCEPT !.pc = "classify", !.err = error_str]]
    /\ UNCHANGED <<now, ret, calls, hist, invalidated>>

\* the except block entered after the try already released
ExceptRelease(r) ==
    /\ req[r].pc = "except_release"
    /\ LET q == req[r]
       IN /\ rot' = liberar_slot_model(rot, q.key, q.model_name)
          /\ req' = [req EXCEPT ![r] = [q EXCEPT !.pc = "classify"]]
    /\ UNCHANGED <<now, ret, calls, hist, invalidated>>

\* the branch of processar_exception that calls remove_key
FoundInvalid(error_str) ==
    ~Search(regex_429, error_str) /\ Search(regex_invalid_key, error_str)

\* foi_erro_de_cota = rotator.processar_exception(key, model_name, e)
Classify(r) ==
    /\ req[r].pc = "classify"
    /\ LET q == req[r]
           p == processar_exception(rot, now, q.key, q.model_name, q.err)
       IN /\ rot' = p.rot
          /\ req' = [req EXCEPT ![r] = AfterException(q, p.handled)]
          /\ invalidated' = IF FoundInvalid(q.err) THEN invalidated \cup {q.key}
                            ELSE invalidated
    /\ UNCHANGED <<now, ret, calls, hist>>

\* time passes
Tick ==
    /\ now + TickSecs <= StartTime + Horizon
    /\ now' = now + TickSecs
    /\ UNCHANGED <<rot, req, ret, calls, hist, invalidated>>

-----------------------------------------------------------------------------
(* Configurations *)

\* 2 free + 1 paid credentials, 2 models
CfgMain ==
    Cfg(<< <<"G-Flash", 2>>, <<"g-pro", 1>> >>, <<"f1", "f2">>, <<"p1">>)

\* one credential per tier, 2 models
CfgDuo ==
    Cfg(<< <<"G-Flash", 2>>, <<"g-pro", 1>> >>, <<"f1">>, <<"p1">>)

\* one credential per tier sharing one model of limit 2
CfgPair ==
    Cfg(<< <<"g-pro", 2>> >>, <<"f1">>, <<"p1">>)

\* the same credential named twice by one list and by both lists
CfgShared ==
    Cfg(<< <<"G-Flash", 2>> >>, <<"k1", "k1">>, <<"k1", "p1">>)

\* one free credential offering one model of limit 1
CfgSole ==
    Cfg(<< <<"g-pro", 1>> >>, <<"f1">>, <<>>)

InitWith(cfgs) ==
    /\ \E cfg \in cfgs : rot = load_keys(cfg)
    /\ now = StartTime
    /\ req = [r \in Reqs |-> IdleRequest]
    /\ ret = [op |-> "none"]
    /\ calls = 0
    /\ hist = <<>>
    /\ invalidated = {}

-----------------------------------------------------------------------------
(* Spec: concurrent requests on one rotator *)

\* str(e) of the exceptions drawn for the generation call
ErrTexts ==
    { {"429"},
      {"API_KEY_INVALID"},
      {"timeout"} }

Init == InitWith({CfgPair})

Next ==
    \/ \E r \in Reqs, ff \in BOOLEAN, fp \in BOOLEAN : Start(r, None, ff, fp)
    \/ \E r \in Reqs : Acquire(r)
    \/ \E r \in Reqs, payload \in Payloads : GenerateReturns(r, payload)
    \/ \E r \in Reqs, e \in ErrTexts : GenerateRaises(r, e)
    \/ \E r \in Reqs : ExceptRelease(r)
    \/ \E r \in Reqs : Classify(r)
    \/ Tick

Spec == Init /\ [][Next]_vars


-----------------------------------------------------------------------------
(* SpecRace: the concurrent requests of Spec competing for the one pair of *)
(* a rotator with one free credential and one model of limit 1.            *)

InitRace == InitWith({CfgSole})

SpecRace == InitRace /\ [][Next]_vars


-----------------------------------------------------------------------------
(* SpecApi: the public methods of the rotator called directly, in any      *)
(* order and with any arguments; every call is one critical section, so a  *)
(* sequence of calls is an interleaving of concurrent callers.  ret holds  *)
(* the last call, its arguments and what it returned.                      *)

\* credentials and models a caller may name, known to the rotator or not
ApiKeys == (DOMAIN rot.models_by_key) \cup {"zz"}
ApiModels == Range(rot.models) \cup {"g-nano"}
ApiVariants == {None, "PRO"}
ApiSeconds == {30, 60}

ApiErrTexts ==
    { {"429"},
      {"429", "PerMinute"},
      {"API_KEY_INVALID"},
      {"PerMinute"} }

ApiCall == calls < MaxApiCalls /\ calls' = calls + 1

ApiAcquire(model_variant, forced_paid, forced_free) ==
    /\ ApiCall
    /\ LET s == select_and_reserve_best_slot(rot, now, model_variant,
                                             forced_paid, forced_free)
       IN /\ rot' = s.rot
          /\ ret' = [op |-> "acquire", model_variant |-> model_variant,
                     forced_paid |-> forced_paid, forced_free |-> forced_free,
                     key |-> s.key, model |-> s.model, tier |-> s.tier]
    /\ UNCHANGED <<now, req, hist, invalidated>>

ApiRelease(key, model) ==
    /\ ApiCall
    /\ rot' = liberar_slot_model(rot, key, model)
    /\ ret' = [op |-> "release", key |-> key, model |-> model]
    /\ UNCHANGED <<now, req, hist, invalidated>>

ApiSuspend(key, model, segundos) ==
    /\ ApiCall
    /\ rot' = suspender_modelo(rot, now, key, model, segundos)
    /\ ret' = [op |-> "suspend", key |-> key, model |-> model,
               segundos |-> segundos]
    /\ UNCHANGED <<now, req, hist, invalidated>>

ApiRecordFailure(key, model, error_str) ==
    /\ ApiCall
    /\ LET p == processar_exception(rot, now, key, model, error_str)
       IN /\ rot' = p.rot
          /\ ret' = [op |-> "record", key |-> key, model |-> model,
                     error_str |-> error_str, handled |-> p.handled]
    /\ invalidated' = IF FoundInvalid(error_str) THEN invalidated \cup {key}
                      ELSE invalidated
    /\ UNCHANGED <<now, req, hist>>

ApiRemove(key) ==
    /\ ApiCall
    /\ LET p == remove_key(rot, key)
       IN /\ rot' = p.rot
          /\ ret' = [op |-> "remove", key |-> key, found |-> p.found]
    /\ UNCHANGED <<now, req, hist, invalidated>>

InitApi == InitWith({CfgDuo, CfgShared})

NextApi ==
    \/ \E v \in ApiVariants, fp \in BOOLEAN, ff \in BOOLEAN : ApiAcquire(v, fp, ff)
    \/ \E k \in ApiKeys, m \in ApiModels : ApiRelease(k, m)
    \/ \E k \in ApiKeys, m \in Range(rot.models), s \in ApiSeconds :
          ApiSuspend(k, m, s)
    \/ \E k \in ApiKeys, m \in Range(rot.models), e \in ApiErrTexts :
          ApiRecordFailure(k, m, e)
    \/ \E k \in ApiKeys : ApiRemove(k)
    \/ Tick

SpecApi == InitApi /\ [][NextApi]_vars


-----------------------------------------------------------------------------
(* SpecSolo: one request on the rotator of 2 free + 1 paid credentials and *)
(* 2 models, with every filter and flag and every kind of exception.  The  *)
(* request is a running thread and generate_content returns or raises, so  *)
(* its steps are weakly fair.  For Acquire the fairness condition is       *)
(* written out, WF_vars(A) being []<>~ENABLED <<A>>_vars \/ []<><<A>>_vars: *)
(* Acquire(Solo) is enabled exactly when the request is at the loop head.  *)

SoloVariants == {None, "PRO"}

SoloErrTexts ==
    { {"429"},
      {"API_KEY_INVALID"},
      {"timeout"} }

\* the request of SpecSolo
Solo == CHOOSE r \in Reqs : \A x \in Reqs : r <= x

InitSolo == InitWith({CfgMain})

AfterCallSolo ==
    \/ \E payload \in Payloads : GenerateReturns(Solo, payload)
    \/ \E e \in SoloErrTexts : GenerateRaises(Solo, e)
    \/ ExceptRelease(Solo)
    \/ Classify(Solo)

NextSolo ==
    \/ \E v \in SoloVariants, ff \in BOOLEAN, fp \in BOOLEAN : Start(Solo, v, ff, fp)
    \/ Acquire(Solo)
    \/ AfterCallSolo
    \/ Tick

FairSolo ==
    /\ WF_vars(AfterCallSolo)
    /\ ([]<>(req[Solo].pc # "acquiring") \/ []<><<Acquire(Solo)>>_vars)

SpecSolo == InitSolo /\ [][NextSolo]_vars /\ FairSolo

-----------------------------------------------------------------------------
(* SpecRR: N free credentials offering one model of limit 1, used by one   *)
(* caller that acquires, releases what it got, and acquires again.         *)

RRKeys == {"a", "b", "c"}

\* the lists of distinct credentials
RRLists ==
    {l \in UNION {[1..n -> RRKeys] : n \in 1..Cardinality(RRKeys)} :
        \A i, j \in 1..Len(l) : i # j => l[i] # l[j]}

RRConfigs == {Cfg(<< <<"g-pro", 1>> >>, l, <<>>) : l \in RRLists}

RRCall == calls < MaxRRCalls /\ calls' = calls + 1

RRAcquire(model_variant, forced_free) ==
    /\ RRCall
    /\ ret.op # "acquire"
    /\ LET s == select_and_reserve_best_slot(rot, now, model_variant,
                                             FALSE, forced_free)
       IN /\ rot' = s.rot
          /\ ret' = [op |-> "acquire", key |-> s.key, model |-> s.model]
          /\ hist' = Append(hist, s.key)
    /\ UNCHANGED <<now, req, invalidated>>

RRRelease ==
    /\ RRCall
    /\ ret.op = "acquire"
    /\ rot' = liberar_slot_model(rot, ret.key, ret.model)
    /\ ret' = [op |-> "release"]
    /\ UNCHANGED <<now, req, hist, invalidated>>

InitRR == InitWith(RRConfigs)

NextRR ==
    \/ \E v \in {None, "PRO"}, ff \in BOOLEAN : RRAcquire(v, ff)
    \/ RRRelease
    \/ Tick

SpecRR == InitRR /\ [][NextRR]_vars


-----------------------------------------------------------------------------
(* SpecGate: one free credential offering one model of limit L, and        *)
(* callers that acquire and release the one pair in any order.  hist       *)
(* records what each call did: the credential an acquisition returned      *)
(* (None when denied) or "release".                                        *)

GateKey == "f1"
GateModel == "g-pro"

GateConfigs == {Cfg(<< <<GateModel, l>> >>, <<GateKey>>, <<>>) : l \in 1..MaxLimit}

GateCall == calls < MaxGateCalls /\ calls' = calls + 1

GateAcquire(model_variant) ==
    /\ GateCall
    /\ LET s == select_and_reserve_best_slot(rot, now, model_variant, FALSE, FALSE)
       IN /\ rot' = s.rot
          /\ ret' = [op |-> "acquire", key |-> s.key, model |-> s.model]
          /\ hist' = Append(hist, s.key)
    /\ UNCHANGED <<now, req, invalidated>>

GateRelease ==
    /\ GateCall
    /\ rot' = liberar_slot_model(rot, GateKey, GateModel)
    /\ ret' = [op |-> "release"]
    /\ hist' = Append(hist, "release")
    /\ UNCHANGED <<now, req, invalidated>>

InitGate == InitWith(GateConfigs)

NextGate ==
    \/ \E v \in {None, "PRO"} : GateAcquire(v)
    \/ GateRelease

SpecGate == InitGate /\ [][NextGate]_vars


-----------------------------------------------------------------------------
(* SpecFail: processar_exception called directly with every combination of *)
(* the signals the regexes look for, on known and unknown credentials,     *)
(* before and at 08:00 UTC, a second call finding the deadline of the      *)
(* first.                                                                  *)

FailTokens == {"429", "limit: 0", "PerDay", "PerMinute", "API_KEY_INVALID"}

FailErrTexts ==
    (SUBSET FailTokens)
       \cup { {"RESOURCE_EXHAUSTED"}, {"RESOURCE_EXHAUSTED", "unauthorized"},
              {"429", "Quota.*Day", "Quota.*Minute"}, {"429", "Quota.*Minute"} }

FailCall == calls < MaxFailCalls /\ calls' = calls + 1

FailRecord(key, model, error_str) ==
    /\ FailCall
    /\ LET p == processar_exception(rot, now, key, model, error_str)
       IN /\ rot' = p.rot
          /\ ret' = [op |-> "record", key |-> key, model |-> model,
                     error_str |-> error_str, handled |-> p.handled]
    /\ invalidated' = IF FoundInvalid(error_str) THEN invalidated \cup {key}
                      ELSE invalidated
    /\ UNCHANGED <<now, req, hist>>

InitFail == InitWith({CfgPair})

NextFail ==
    \/ \E k \in ApiKeys, m \in Range(rot.models), e \in FailErrTexts :
          FailRecord(k, m, e)
    \/ Tick

SpecFail == InitFail /\ [][NextFail]_vars


-----------------------------------------------------------------------------
(* SpecSort: the rotator built from every list of up to MaxModels distinct *)
(* model names (limit 1 each), with one credential per tier; the action    *)
(* is a call of _get_prioritized_models for one tier.                      *)

SortModelPool == {"g-ultra", "g-pro", "PRO", "G-Flash", "g-nano"}

SortLists ==
    {l \in UNION {[1..n -> SortModelPool] : n \in 1..MaxModels} :
        \A i, j \in 1..Len(l) : i # j => l[i] # l[j]}

SortConfigs ==
    {Cfg([i \in 1..Len(l) |-> <<l[i], 1>>], <<"f1">>, <<"p1">>) : l \in SortLists}

Prioritize(is_paid_key) ==
    /\ ret' = [op |-> "prioritize", is_paid_key |-> is_paid_key,
               result |-> _get_prioritized_models(rot.models, is_paid_key)]
    /\ UNCHANGED <<rot, now, req, calls, hist, invalidated>>

InitSort == InitWith(SortConfigs)

NextSort == \E is_paid_key \in BOOLEAN : Prioritize(is_paid_key)

SpecSort == InitSort /\ [][NextSort]_vars


-----------------------------------------------------------------------------
(* SpecClock: _calcular_segundos_ate_renovacao called at every whole       *)
(* second of two days.                                                     *)

ClockTimes == 0..(ClockSpan - 1)

Renewal ==
    /\ ret' = [op |-> "renewal", seconds |-> _calcular_segundos_ate_renovacao(now)]
    /\ UNCHANGED <<rot, now, req, calls, hist, invalidated>>

InitClock ==
    /\ rot = load_keys(CfgPair)
    /\ now \in ClockTimes
    /\ req = [r \in Reqs |-> IdleRequest]
    /\ ret = [op |-> "none"]
    /\ calls = 0
    /\ hist = <<>>
    /\ invalidated = {}

NextClock == Renewal

SpecClock == InitClock /\ [][NextClock]_vars


-----------------------------------------------------------------------------
(* Claims about the allocator, checked on SpecApi *)

\* the last step was a direct call of select_and_reserve_best_slot
AcquireStep == calls' = calls + 1 /\ ret'.op = "acquire"

Count(k, m) == rot.active_slots[k][m]

\* C1: in every reachable state, under any interleaving of acquire, release,
\* suspend, recordFailure and removeCredential calls, the active count of
\* every (credential, model) pair is at least 0 and at most the model's limit.
C1_CountWithinLimit ==
    \A k \in DOMAIN rot.active_slots : \A m \in DOMAIN rot.active_slots[k] :
        0 <= Count(k, m) /\ Count(k, m) <= LimitOf(rot.model_limits, m)

\* an acquisition passed over a free-tier pair of limit 2 that is full and
\* not suspended
C1_Witness ==
    /\ ret.op = "acquire" /\ ret.key # None /\ ~ret.forced_paid
    /\ \E k \in Range(rot.free_keys) :
          /\ <<k, ret.model>> # <<ret.key, ret.model>>
          /\ LimitOf(rot.model_limits, ret.model) = 2
          /\ Count(k, ret.model) = 2
          /\ ret.model \notin DOMAIN rot.suspended_until[k]

\* a pair of the Free tier that the filter lets through, that is not
\* suspended at time t and that is below its limit
FreePairAvailable(r, t, model_variant) ==
    \E k \in Range(r.free_keys) : \E m \in Range(r.models_by_key[k]) :
        /\ model_variant = None \/ VariantMatches(model_variant, m)
        /\ m \in DOMAIN r.suspended_until[k] => r.suspended_until[k][m] <= t
        /\ r.active_slots[k][m] < LimitOf(r.model_limits, m)

PaidPairAvailable(r, t, model_variant) ==
    \E k \in Range(r.paid_keys) : \E m \in Range(r.models_by_key[k]) :
        /\ model_variant = None \/ VariantMatches(model_variant, m)
        /\ m \in DOMAIN r.suspended_until[k] => r.suspended_until[k][m] <= t
        /\ r.active_slots[k][m] < LimitOf(r.model_limits, m)

\* C2: without forcePaid, acquireSlot returns a Paid-tier allocation only if
\* at that moment no Free-tier pair matching the filter is both unsuspended
\* and below its limit.
C2_FreeBeforePaid ==
    [][ (AcquireStep /\ ~ret'.forced_paid /\ ret'.tier = "paid")
           => ~FreePairAvailable(rot, now, ret'.model_variant) ]_vars

\* a Paid allocation was returned without forcePaid while the Free tier
\* still has credentials
C2_Witness ==
    /\ ret.op = "acquire" /\ ~ret.forced_paid /\ ret.tier = "paid"
    /\ rot.free_keys # <<>>

\* C3: acquireSlot with forceFree never returns a Paid allocation and never
\* increments the count of a credential outside the Free tier (the Paid
\* cursor stays too); when the Free tier has no admissible pair it returns
\* none and changes no count, even if Paid pairs are free.
C3_ForceFreeNeverPaid ==
    [][ (AcquireStep /\ ret'.forced_free) =>
           /\ ret'.tier # "paid"
           /\ rot'.paid_index = rot.paid_index
           /\ \A k \in DOMAIN rot.active_slots :
                 k \notin Range(rot.free_keys)
                    => rot'.active_slots[k] = rot.active_slots[k]
           /\ (ret'.forced_paid \/ ~FreePairAvailable(rot, now, ret'.model_variant))
                 => (ret'.key = None /\ rot'.active_slots = rot.active_slots) ]_vars

\* forceFree returned none although a Paid pair could have served the call
C3_Witness ==
    /\ ret.op = "acquire" /\ ret.forced_free /\ ~ret.forced_paid
    /\ ret.key = None
    /\ PaidPairAvailable(rot, now, ret.model_variant)


\* C4 (as claimed): once processar_exception has found credential k invalid,
\* no later acquisition returns k, with any filter and flags, and capacity()
\* is max(1, n * m) for the n credentials left and the m models.
C4_RemovedPermanently ==
    /\ ret.op = "acquire" => ret.key \notin invalidated
    /\ get_total_capacity(rot)
          = Max(1, (Len(rot.free_keys) + Len(rot.paid_keys)) * Len(rot.models))

\* the last step was a direct call of suspender_modelo
SuspendStep == calls' = calls + 1 /\ ret'.op = "suspend"

\* C9: suspend never shortens a suspension: while a deadline is recorded for
\* the pair, suspend(credential, model, s) leaves the recorded deadline at
\* max(old deadline, now + s).
C9_NeverShortens ==
    [][ (/\ SuspendStep
         /\ ret'.key \in DOMAIN rot.suspended_until
         /\ ret'.model \in DOMAIN rot.suspended_until[ret'.key])
           => rot'.suspended_until[ret'.key][ret'.model]
                 = Max(rot.suspended_until[ret'.key][ret'.model], now + ret'.segundos) ]_vars

\* a pair suspended for 60 s was then suspended for 30 s at the same time,
\* and its deadline is still the one of the 60 s
C9_Witness ==
    /\ ret.op = "suspend" /\ ret.segundos = 30
    /\ ret.key \in DOMAIN rot.suspended_until
    /\ ret.model \in DOMAIN rot.suspended_until[ret.key]
    /\ rot.suspended_until[ret.key][ret.model] = now + 60

\* the last step was a direct call of liberar_slot_model
ReleaseStep == calls' = calls + 1 /\ ret'.op = "release"

\* C10: releaseSlot on a pair whose count is 0, or on an unknown credential
\* or model, changes no count, deadline, tier list or cursor; on a pair with
\* count c > 0 it sets that count to c - 1 and changes nothing else.
C10_ReleaseFrame ==
    [][ ReleaseStep =>
          LET k == ret'.key
              m == ret'.model
          IN IF /\ k \in DOMAIN rot.active_slots
                /\ m \in DOMAIN rot.active_slots[k]
                /\ rot.active_slots[k][m] > 0
             THEN rot' = [rot EXCEPT !.active_slots[k][m] = rot.active_slots[k][m] - 1]
             ELSE rot' = rot ]_vars

\* the first call ever made is a release of a known pair, whose count is 0
C10_Witness ==
    /\ calls = 1 /\ ret.op = "release"
    /\ ret.key \in DOMAIN rot.active_slots
    /\ ret.model \in DOMAIN rot.active_slots[ret.key]
    /\ rot.active_slots[ret.key][ret.model] = 0


-----------------------------------------------------------------------------
(* Claims about the retry loop *)

Running(q) == q.pc \in {"acquiring", "invoking", "except_release", "classify"}

\* the iterations a request has made never exceed the capacity read at its
\* start plus 2, and a request fails only after exactly that many
IterationsBounded ==
    \A r \in Reqs :
        /\ req[r].iters <= req[r].cap0 + 2
        /\ req[r].pc = "failed" => req[r].iters = req[r].cap0 + 2

\* C5: one request ends after at most capacity() + 2 loop iterations, with
\* capacity() read once at its start: whatever the outcomes of its
\* iterations, it reaches SUCCESS or TERMINAL_FAILURE provided each external
\* call returns.
C5_Terminates ==
    /\ []IterationsBounded
    /\ Running(req[Solo]) ~> (req[Solo].pc \in {"done", "failed"})

\* with 2 free + 1 paid credentials and 2 models a request failed after 8
\* iterations, although credentials were removed while it ran
C5_Witness ==
    /\ req[Solo].pc = "failed"
    /\ req[Solo].cap0 = 6 /\ req[Solo].iters = 8
    /\ get_total_capacity(rot) < 6

\* the requests that hold a slot of pair (k, m): between their acquisition
\* and the release that follows the call
Holders(k, m) ==
    {r \in Reqs : req[r].pc = "invoking" /\ req[r].key = k /\ req[r].model_name = m}

\* C6: the retry loop releases the slot it acquired on every outcome of the
\* call before it acquires again or exits: no count exceeds the number of
\* requests whose call is in flight on the pair, so a finished request holds
\* no slot and with no request in flight every count is 0.
C6_ReleasedOnEveryOutcome ==
    \A k \in DOMAIN rot.active_slots : \A m \in DOMAIN rot.active_slots[k] :
        Count(k, m) <= Cardinality(Holders(k, m))

\* every request has finished, one of them by terminal failure, after a
\* credential was found invalid and a pair was suspended
C6_Witness ==
    /\ \A r \in Reqs : req[r].pc \in {"done", "failed"}
    /\ \E r \in Reqs : req[r].pc = "failed"
    /\ invalidated # {}
    /\ \E k \in DOMAIN rot.suspended_until : DOMAIN rot.suspended_until[k] # {}

\* C7: the only failure a caller sees is the generic one raised when the
\* attempts are exhausted: an exception of the call, whether
\* processar_exception returns True or False, leads back to the loop head
\* while attempts remain and is never propagated.
C7_OnlyGenericFailure ==
    [][ \A r \in Reqs :
          /\ (req[r].pc = "classify" /\ req'[r] # req[r]) =>
                IF req[r].tentativa_atual < req[r].max_tentativas
                THEN req'[r].pc = "acquiring"
                ELSE req'[r].pc = "failed"
          /\ req'[r].pc = "failed" =>
                /\ req'[r].raised = "GeminiServiceException"
                /\ req'[r].iters = req'[r].cap0 + 2 ]_vars

\* an exception that processar_exception does not handle is in the except
\* block of a request that has attempts left
C7_Witness ==
    \E r \in Reqs :
        /\ req[r].pc = "classify"
        /\ ~Search(regex_429, req[r].err) /\ ~Search(regex_invalid_key, req[r].err)
        /\ req[r].tentativa_atual < req[r].max_tentativas

-----------------------------------------------------------------------------
(* Claims about round-robin, checked on SpecRR *)

\* C8: with N free credentials offering one model of limit 1, no suspension
\* and no removal, acquisitions each released before the next return the
\* credentials in list order from the cursor, so any N consecutive ones
\* return N pairwise distinct credentials.
C8_RoundRobin ==
    LET n == Len(rot.free_keys)
    IN /\ \A i \in 1..Len(hist) : hist[i] = rot.free_keys[((i - 1) % n) + 1]
       /\ \A i, j \in 1..Len(hist) : (i < j /\ j < i + n) => hist[i] # hist[j]

\* three credentials were each returned once and the first one came again
C8_Witness ==
    /\ Len(rot.free_keys) = 3
    /\ Len(hist) = 4
    /\ hist[4] = hist[1]

-----------------------------------------------------------------------------
(* Claims about one pair at its limit, checked on SpecGate *)

GateLimit == LimitOf(rot.model_limits, GateModel)

\* C11: while the only pair that can serve has its count at the limit L,
\* every acquireSlot returns none and changes nothing; below the limit it
\* returns the pair and adds 1; a releaseSlot on the pair takes exactly 1
\* off, so each release enables exactly one further successful acquireSlot.
C11_ReleaseEnablesOne ==
    [][ /\ (calls' = calls + 1 /\ ret'.op = "acquire") =>
              IF Count(GateKey, GateModel) = GateLimit
              THEN ret'.key = None /\ rot' = rot
              ELSE /\ ret'.key = GateKey /\ ret'.model = GateModel
                   /\ rot'.active_slots[GateKey][GateModel]
                         = Count(GateKey, GateModel) + 1
        /\ (calls' = calls + 1 /\ ret'.op = "release"
               /\ Count(GateKey, GateModel) > 0) =>
              rot'.active_slots[GateKey][GateModel]
                 = Count(GateKey, GateModel) - 1 ]_vars

\* limit 1: granted, denied while in flight, released, granted, denied again
C11_Witness ==
    /\ GateLimit = 1
    /\ hist = <<GateKey, None, "release", GateKey, None>>

-----------------------------------------------------------------------------
(* Claims about processar_exception, checked on SpecFail *)

\* seconds from t to the next 08:00 UTC, tomorrow's when t is at or past
\* today's
UntilNextRenewal(t) ==
    LET tod == t % 86400
    IN IF tod < 8 * 3600 THEN 8 * 3600 - tod ELSE 32 * 3600 - tod

\* the duration the first matching sub-case gives
ClaimedDuration(t, error_str) ==
    CASE "limit: 0" \in error_str -> 86400
      [] "limit: 0" \notin error_str
            /\ {"PerDay", "Quota.*Day"} \cap error_str # {}
         -> UntilNextRenewal(t) + 300
      [] {"limit: 0", "PerDay", "Quota.*Day"} \cap error_str = {}
            /\ {"PerMinute", "Quota.*Minute"} \cap error_str # {}
         -> 120
      [] OTHER -> 60

\* C12: when the text carries a rate-limit signal, recordFailure returns
\* true, removes no credential and suspends exactly the reported pair (the
\* deadline becomes now + duration unless a later one is recorded; nothing
\* happens for a credential the rotator never had), the duration being that
\* of the first matching sub-case: limit 0, daily, per-minute, otherwise 60 s;
\* an invalid-credential signal in the same text is ignored.
C12_RateLimitSuspends ==
    [][ (/\ calls' = calls + 1 /\ ret'.op = "record"
         /\ {"429", "RESOURCE_EXHAUSTED"} \cap ret'.error_str # {}) =>
          LET k == ret'.key
              m == ret'.model
              until == now + ClaimedDuration(now, ret'.error_str)
          IN /\ ret'.handled
             /\ rot'.free_keys = rot.free_keys
             /\ rot'.paid_keys = rot.paid_keys
             /\ get_total_capacity(rot') = get_total_capacity(rot)
             /\ rot'.active_slots = rot.active_slots
             /\ IF k \notin DOMAIN rot.suspended_until THEN rot' = rot
                ELSE /\ \A k2 \in DOMAIN rot.suspended_until \ {k} :
                          rot'.suspended_until[k2] = rot.suspended_until[k2]
                     /\ DOMAIN rot'.suspended_until[k]
                          = DOMAIN rot.suspended_until[k] \cup {m}
                     /\ \A m2 \in DOMAIN rot.suspended_until[k] \ {m} :
                          rot'.suspended_until[k][m2] = rot.suspended_until[k][m2]
                     /\ rot'.suspended_until[k][m] =
                          IF m \in DOMAIN rot.suspended_until[k]
                          THEN Max(rot.suspended_until[k][m], until)
                          ELSE until ]_vars

\* a text with the rate-limit, daily, per-minute and invalid-credential
\* signals suspended the pair until the next renewal and kept the credential
C12_Witness ==
    /\ ret.op = "record"
    /\ {"429", "PerDay", "PerMinute", "API_KEY_INVALID"} \subseteq ret.error_str
    /\ "limit: 0" \notin ret.error_str
    /\ ret.key \in Range(rot.free_keys)
    /\ ret.model \in DOMAIN rot.suspended_until[ret.key]
    /\ rot.suspended_until[ret.key][ret.model] = now + UntilNextRenewal(now) + 300
    /\ invalidated = {}

-----------------------------------------------------------------------------
(* Claims about the preference lists, checked on SpecSort *)

ClaimedWeight(m) ==
    CASE m = "g-ultra" -> 100
      [] m \in {"g-pro", "PRO"} -> 80
      [] m = "G-Flash" -> 10
      [] OTHER -> 50

\* sorted is the list `models` in stable order of weight, descending or
\* ascending: the same elements, no two out of weight order, and two of
\* equal weight in the order `models` has them
StablySorted(sorted, models, descending) ==
    /\ Len(sorted) = Len(models)
    /\ Range(sorted) = Range(models)
    /\ \A i, j \in 1..Len(sorted) : i < j =>
          LET wi == ClaimedWeight(sorted[i])
              wj == ClaimedWeight(sorted[j])
          IN /\ IF descending THEN wi >= wj ELSE wi <= wj
             /\ wi = wj => IndexOf(sorted[i], models) < IndexOf(sorted[j], models)

\* C13: for every configured model list, the preference list of a Free
\* credential is the models stably sorted by descending weight (ultra 100,
\* pro 80, other 50, flash 10) and that of a Paid credential the models
\* stably sorted by ascending weight, configuration order kept among equal
\* weights; {ultra, pro, flash} gives [ultra, pro, flash] and
\* [flash, pro, ultra].
C13_PreferenceOrder ==
    /\ \A k \in Range(rot.free_keys) :
          StablySorted(rot.models_by_key[k], rot.models, TRUE)
    /\ \A k \in Range(rot.paid_keys) :
          StablySorted(rot.models_by_key[k], rot.models, FALSE)
    /\ ret.op = "prioritize" =>
          StablySorted(ret.result, rot.models, ~ret.is_paid_key)
    /\ Range(rot.models) = {"g-ultra", "g-pro", "G-Flash"} =>
          /\ rot.models_by_key["f1"] = <<"g-ultra", "g-pro", "G-Flash">>
          /\ rot.models_by_key["p1"] = <<"G-Flash", "g-pro", "g-ultra">>

\* two models of weight 80 configured after a flash model: the Free order
\* puts them first, in configuration order
C13_Witness ==
    /\ rot.models = <<"G-Flash", "PRO", "g-pro">>
    /\ ret.op = "prioritize" /\ ~ret.is_paid_key
    /\ ret.result = <<"PRO", "g-pro", "G-Flash">>
    /\ rot.models_by_key["f1"] = ret.result

-----------------------------------------------------------------------------
(* Claims about the daily renewal, checked on SpecClock *)

\* C14: at t whole seconds since 00:00 UTC the daily-quota suspension lasts
\* (8h - t) + 300 when t < 08:00 and (32h - t) + 300 when t >= 08:00, also at
\* exactly 08:00: 23h + 300 at 09:00 and 1h + 300 at 07:00, always more than
\* 300 and at most 86700.
C14_DailyRenewal ==
    ret.op = "renewal" =>
        LET t == now % (24 * 3600)
        IN /\ t < 8 * 3600 => ret.seconds = (8 * 3600 - t) + 300
           /\ t >= 8 * 3600 => ret.seconds = (32 * 3600 - t) + 300
           /\ t = 9 * 3600 => ret.seconds = 23 * 3600 + 300
           /\ t = 7 * 3600 => ret.seconds = 3600 + 300
           /\ 300 < ret.seconds /\ ret.seconds <= 86700

\* called at exactly 08:00:00 of the second day: a full day plus the margin
C14_Witness ==
    /\ ret.op = "renewal"
    /\ now = 24 * 3600 + 8 * 3600
    /\ ret.seconds = 86700

-----------------------------------------------------------------------------
(* Claims about the tier lists and what removal leaves behind *)

\* C15 (as claimed): in every reachable state the cursor of a non-empty tier
\* is at least 0 and less than the length of the tier's list, also right
\* after a removal shrank the list.
C15_CursorInRange ==
    /\ rot.free_keys # <<>> =>
          (0 <= rot.free_index /\ rot.free_index < Len(rot.free_keys))
    /\ rot.paid_keys # <<>> =>
          (0 <= rot.paid_index /\ rot.paid_index < Len(rot.paid_keys))

\* C16 (as claimed): slot and suspension entries exist only for credentials
\* that are in a tier: removeCredential deletes the credential's counts and
\* deadlines in the step that takes it out of its tier.
C16_StateOnlyForMembers ==
    (DOMAIN rot.active_slots) \cup (DOMAIN rot.suspended_until)
        \subseteq Range(rot.free_keys) \cup Range(rot.paid_keys)

\* C17 (as claimed): whatever the configured lists, a credential is in at
\* most one of the Free and Paid tier lists and capacity() counts it once.
C17_OneTier ==
    /\ Range(rot.free_keys) \cap Range(rot.paid_keys) = {}
    /\ get_total_capacity(rot)
          = Max(1, Cardinality(Range(rot.free_keys) \cup Range(rot.paid_keys))
                      * Len(rot.models))

-----------------------------------------------------------------------------
(* Claims about the scan *)

\* C18 (as claimed): after an acquisition succeeds in a tier, the tier's
\* cursor is (index of the returned credential in the tier's list + 1) mod
\* the tier's size, also when the scan passed over earlier credentials, and
\* the other tier's cursor is unchanged.
C18_CursorFollowsFound ==
    [][ \A r \in Reqs :
          (req[r].pc = "acquiring" /\ req'[r].pc = "invoking") =>
             LET k == req'[r].key
             IN IF req'[r].tier = "free"
                THEN /\ rot'.free_index
                          = ((IndexOf(k, rot.free_keys) - 1) + 1) % Len(rot.free_keys)
                     /\ rot'.paid_index = rot.paid_index
                ELSE /\ rot'.paid_index
                          = ((IndexOf(k, rot.paid_keys) - 1) + 1) % Len(rot.paid_keys)
                     /\ rot'.free_index = rot.free_index ]_vars

\* the pair has a recorded deadline that is still in the future at time t
DeadlineAhead(r, k, m, t) ==
    /\ k \in DOMAIN r.suspended_until
    /\ m \in DOMAIN r.suspended_until[k]
    /\ t < r.suspended_until[k][m]

\* C19: acquireSlot never returns a pair whose deadline is still in the
\* future at the time of the call; a deadline that has passed does not keep
\* the pair from being returned and is cleared by the scan, the returned
\* pair has no deadline afterwards, and the scan clears nothing else: a
\* deadline still ahead stays as it was and none is added.
C19_SuspendedNeverReturned ==
    [][ AcquireStep =>
          /\ ret'.key # None =>
                /\ ~DeadlineAhead(rot, ret'.key, ret'.model, now)
                /\ ret'.model \notin DOMAIN rot'.suspended_until[ret'.key]
          /\ \A k \in DOMAIN rot.suspended_until :
                /\ DOMAIN rot'.suspended_until[k] \subseteq DOMAIN rot.suspended_until[k]
                /\ \A m \in DOMAIN rot.suspended_until[k] :
                      IF m \in DOMAIN rot'.suspended_until[k]
                      THEN rot'.suspended_until[k][m] = rot.suspended_until[k][m]
                      ELSE rot.suspended_until[k][m] <= now ]_vars

\* an unfiltered acquisition returned the second model of a credential
\* whose first model is idle but suspended until a later time
C19_Witness ==
    /\ ret.op = "acquire" /\ ret.model_variant = None /\ ret.key # None
    /\ \E m \in Range(rot.models) :
          /\ IndexOf(m, rot.models_by_key[ret.key])
                < IndexOf(ret.model, rot.models_by_key[ret.key])
          /\ Count(ret.key, m) = 0
          /\ DeadlineAhead(rot, ret.key, m, now)

\* the pair passes the filter, is not suspended at time t and is below its
\* limit
Servable(r, k, m, t, model_variant) ==
    /\ model_variant = None \/ VariantMatches(model_variant, m)
    /\ ~DeadlineAhead(r, k, m, t)
    /\ r.active_slots[k][m] < LimitOf(r.model_limits, m)

\* the pair the claim names in one tier: the first servable model, in
\* preference order, of the first credential at or cyclically after the
\* cursor that has one; <<>> when the tier has none
FirstServable(r, keys_list, cursor, t, model_variant) ==
    LET n    == Len(keys_list)
        at(i) == keys_list[((cursor + i) % n) + 1]
        offs == {i \in 0..(n - 1) :
                    \E m \in Range(r.models_by_key[at(i)]) :
                        Servable(r, at(i), m, t, model_variant)}
    IN IF offs = {} THEN <<>>
       ELSE LET i  == CHOOSE x \in offs : \A y \in offs : x <= y
                k  == at(i)
                ms == r.models_by_key[k]
                js == {j \in 1..Len(ms) : Servable(r, k, ms[j], t, model_variant)}
                j  == CHOOSE x \in js : \A y \in js : x <= y
            IN <<k, ms[j]>>

\* C20: acquireSlot returns none only when no tier the force flags permit
\* has a pair that matches the filter, is unsuspended and is below its limit;
\* otherwise it returns, from the Free tier before the Paid tier, the first
\* admissible model in preference order of the first credential at or
\* cyclically after the tier's cursor that has one, and adds 1 to exactly
\* that pair's count.  A failed acquireSlot changes no count and no cursor.
C20_FirstAdmissible ==
    [][ AcquireStep =>
          LET v    == ret'.model_variant
              free == IF ret'.forced_paid THEN <<>>
                      ELSE FirstServable(rot, rot.free_keys, rot.free_index, now, v)
              paid == IF ret'.forced_free THEN <<>>
                      ELSE FirstServable(rot, rot.paid_keys, rot.paid_index, now, v)
              pick == IF free # <<>> THEN free ELSE paid
          IN IF pick = <<>>
             THEN /\ ret'.key = None /\ ret'.model = None /\ ret'.tier = None
                  /\ rot'.active_slots = rot.active_slots
                  /\ rot'.free_index = rot.free_index
                  /\ rot'.paid_index = rot.paid_index
             ELSE /\ ret'.key = pick[1] /\ ret'.model = pick[2]
                  /\ ret'.tier = IF free # <<>> THEN "free" ELSE "paid"
                  /\ rot'.active_slots =
                        [rot.active_slots EXCEPT ![pick[1]][pick[2]] = @ + 1] ]_vars

\* a Paid-tier scan that started at its second credential, which is
\* suspended, wrapped round to the first one and took its slot
C20_Witness ==
    /\ ret.op = "acquire" /\ ret.tier = "paid"
    /\ Len(rot.paid_keys) = 2
    /\ ret.key = rot.paid_keys[1]
    /\ rot.paid_index = 0
    /\ DeadlineAhead(rot, rot.paid_keys[2], ret.model, now)

-----------------------------------------------------------------------------
(* Claims about telemetry and about the order of release and suspension *)

\* C21 (as claimed): an attempt whose call succeeds with a payload that fails
\* validation emits no telemetry; telemetry is emitted only for the attempt
\* whose valid payload is returned, so a request has emitted at most once,
\* and only if it has returned.
C21_TelemetryOnlyOnSuccess ==
    \A r \in Reqs :
        /\ req[r].telemetry <= 1
        /\ req[r].telemetry = 1 => req[r].pc = "done"

\* C22 (as claimed): the loop releases exactly once for each successful
\* acquisition on every path, so the requests that are between their
\* acquisition and their release on a pair are never more than the pair's
\* limit.
C22_HoldersWithinLimit ==
    \A k \in DOMAIN rot.active_slots : \A m \in DOMAIN rot.active_slots[k] :
        Cardinality(Holders(k, m)) <= LimitOf(rot.model_limits, m)

\* C23 (as claimed): once a request's call on a pair has failed with a
\* rate-limit error, no other request is granted that pair before the
\* suspension the failure causes has expired: not while the failed request
\* is between its release and its processar_exception, and not while the
\* recorded deadline is ahead.
C23_NoGrantAfterRateLimit ==
    [][ \A r \in Reqs :
          (req[r].pc = "acquiring" /\ req'[r].pc = "invoking") =>
             /\ ~DeadlineAhead(rot, req'[r].key, req'[r].model_name, now)
             /\ ~\E o \in Reqs \ {r} :
                   /\ req[o].pc = "classify"
                   /\ Search(regex_429, req[o].err)
                   /\ req[o].key = req'[r].key
                   /\ req[o].model_name = req'[r].model_name ]_vars

=============================================================================
